---------------------------- MODULE Spec2Model ----------------------------
(***************************************************************************)
(* A model of go-satellite's TLE parser (ParseTLE, NewSatFromTLE), its     *)
(* gravity-model table (getGravConst), its time system (days2mdhms,        *)
(* NewJDay) and the degrees conversion (LatLongDeg).                       *)
(*                                                                         *)
(* Go strings are sequences of one-character strings.  A float64 is held   *)
(* as an exact decimal [neg, digs, exp, inf, scale]: the value             *)
(* 0.d1d2...dn * 10^exp (digs without leading or trailing zeros), so the   *)
(* binary rounding of float64 is not modelled.  An angle in radians is a   *)
(* whole number of units of which Pi make a half turn.                     *)
(***************************************************************************)
EXTENDS Integers, Sequences, FiniteSets, TLC

VARIABLES op, pc, in, out

vars == <<op, pc, in, out>>

----------------------------------------------------------------------------
(* Go string helpers                                                       *)

Digits == {"0", "1", "2", "3", "4", "5", "6", "7", "8", "9"}

DigitVal(c) ==
    CASE c = "0" -> 0 [] c = "1" -> 1 [] c = "2" -> 2 [] c = "3" -> 3
      [] c = "4" -> 4 [] c = "5" -> 5 [] c = "6" -> 6 [] c = "7" -> 7
      [] c = "8" -> 8 [] c = "9" -> 9

\* s[lo:hi] of Go: bytes lo .. hi-1, counted from 0
Slice(s, lo, hi) == SubSeq(s, lo + 1, hi)

\* strings.Replace(s, " ", new, n): the first n spaces (all of them when n < 0)
\* are replaced by new, the rest of s is kept
RECURSIVE Replace(_, _, _)
Replace(s, new, n) ==
    IF s = <<>> THEN <<>>
    ELSE IF Head(s) = " " /\ n # 0
         THEN new \o Replace(Tail(s), new, IF n < 0 THEN n ELSE n - 1)
         ELSE <<Head(s)>> \o Replace(Tail(s), new, n)

RECURSIVE TrimLeft(_)
TrimLeft(s) == IF s # <<>> /\ Head(s) = " " THEN TrimLeft(Tail(s)) ELSE s

RECURSIVE TrimRight(_)
TrimRight(s) ==
    IF s # <<>> /\ s[Len(s)] = " " THEN TrimRight(SubSeq(s, 1, Len(s) - 1)) ELSE s

\* strings.TrimSpace
TrimSpace(s) == TrimRight(TrimLeft(s))

----------------------------------------------------------------------------
(* strconv                                                                 *)

NoError == [msg |-> "nil", cause |-> "nil", n |-> 0]

Errorf(msg, cause, n) == [msg |-> msg, cause |-> cause, n |-> n]

ErrSyntax == "invalid syntax"
ErrRange == "value out of range"

\* the index of the first character of s at or after i that is no digit
RECURSIVE ScanDigits(_, _)
ScanDigits(s, i) ==
    IF i <= Len(s) /\ s[i] \in Digits THEN ScanDigits(s, i + 1) ELSE i

\* the exponent accumulation of readFloat: e = e*10 + digit while e < 10000
RECURSIVE ExpValue(_, _)
ExpValue(ds, e) ==
    IF ds = <<>> THEN e
    ELSE ExpValue(Tail(ds), IF e < 10000 THEN e * 10 + DigitVal(Head(ds)) ELSE e)

RECURSIVE StripLeadingZeros(_, _)
StripLeadingZeros(ds, dp) ==
    IF ds # <<>> /\ Head(ds) = "0" THEN StripLeadingZeros(Tail(ds), dp - 1)
    ELSE [digs |-> ds, dp |-> dp]

RECURSIVE StripTrailingZeros(_)
StripTrailingZeros(ds) ==
    IF ds # <<>> /\ ds[Len(ds)] = "0"
    THEN StripTrailingZeros(SubSeq(ds, 1, Len(ds) - 1)) ELSE ds

Float(neg, digs, exp) ==
    [neg |-> neg, digs |-> digs, exp |-> exp, inf |-> FALSE, scale |-> ""]

\* the zero value of a float64
Zero == Float(FALSE, <<>>, 0)

Inf(neg) == [neg |-> neg, digs |-> <<>>, exp |-> 0, inf |-> TRUE, scale |-> ""]

\* largest decimal exponent dp for which 0.d1d2... * 10^dp is a finite float64
MaxDecimalExp == 309

\* below this decimal exponent 0.d1d2... * 10^dp rounds to zero
MinDecimalExp == -323

\* readFloat, sign and mantissa: an optional sign, digits, at most one point.
\* next is the index of the first character after the mantissa.
ReadSign(s) == IF Len(s) >= 1 /\ s[1] \in {"+", "-"} THEN 2 ELSE 1

ReadFraction(s, i0, j1) ==
    IF j1 <= Len(s) /\ s[j1] = "."
    THEN [intD |-> SubSeq(s, i0, j1 - 1),
          fracD |-> SubSeq(s, j1 + 1, ScanDigits(s, j1 + 1) - 1),
          next |-> ScanDigits(s, j1 + 1)]
    ELSE [intD |-> SubSeq(s, i0, j1 - 1), fracD |-> <<>>, next |-> j1]

ReadMantissa(s) == ReadFraction(s, ReadSign(s), ScanDigits(s, ReadSign(s)))

\* readFloat, exponent: e or E, an optional sign, at least one digit
ReadExpDigits(s, k2, esign) ==
    IF ScanDigits(s, k2) > k2
    THEN [ok |-> TRUE, e |-> esign * ExpValue(SubSeq(s, k2, ScanDigits(s, k2) - 1), 0),
          next |-> ScanDigits(s, k2)]
    ELSE [ok |-> FALSE, e |-> 0, next |-> k2]

ReadExponent(s, j) ==
    IF j <= Len(s) /\ s[j] \in {"e", "E"}
    THEN IF j + 1 <= Len(s) /\ s[j + 1] = "-" THEN ReadExpDigits(s, j + 2, -1)
         ELSE IF j + 1 <= Len(s) /\ s[j + 1] = "+" THEN ReadExpDigits(s, j + 2, 1)
         ELSE ReadExpDigits(s, j + 1, 1)
    ELSE [ok |-> TRUE, e |-> 0, next |-> j]

\* the value of the digits read: 0.digs * 10^dp, digs without leading or
\* trailing zeros; a dp past MaxDecimalExp is out of the range of a float64
DecimalValue(neg, lead) ==
    IF StripTrailingZeros(lead.digs) = <<>> \/ lead.dp < MinDecimalExp
    THEN [val |-> Float(neg, <<>>, 0), err |-> "nil"]
    ELSE IF lead.dp > MaxDecimalExp THEN [val |-> Inf(neg), err |-> ErrRange]
    ELSE [val |-> Float(neg, StripTrailingZeros(lead.digs), lead.dp), err |-> "nil"]

ParseFloatParts(s, m, x) ==
    IF Len(m.intD) + Len(m.fracD) = 0 \/ ~x.ok \/ x.next # Len(s) + 1
    THEN [val |-> Zero, err |-> ErrSyntax]
    ELSE DecimalValue(s[1] = "-",
                      StripLeadingZeros(m.intD \o m.fracD, Len(m.intD) + x.e))

\* strconv.ParseFloat(s, 64) on base-10 text (no hex, no underscores, no inf/nan)
strconvParseFloat(s) ==
    IF s = <<>> THEN [val |-> Zero, err |-> ErrSyntax]
    ELSE ParseFloatParts(s, ReadMantissa(s), ReadExponent(s, ReadMantissa(s).next))

RECURSIVE DigitsValue(_, _)
DigitsValue(ds, acc) ==
    IF ds = <<>> THEN acc ELSE DigitsValue(Tail(ds), acc * 10 + DigitVal(Head(ds)))

\* strconv.ParseInt(s, 10, 0): an optional sign and at least one digit
strconvParseInt(s) ==
    LET i0 == ReadSign(s)
        j == ScanDigits(s, i0)
    IN  IF s = <<>> \/ j = i0 \/ j # Len(s) + 1 THEN [val |-> 0, err |-> ErrSyntax]
        ELSE [val |-> IF s[1] = "-" THEN -DigitsValue(SubSeq(s, i0, j - 1), 0)
                      ELSE DigitsValue(SubSeq(s, i0, j - 1), 0),
              err |-> "nil"]

\* helpers.go parseFloat: every space becomes "0", then strconv.ParseFloat.
\* handed is the text strconv receives.
parseFloat(strIn) ==
    LET s == Replace(strIn, <<"0">>, -1)
        r == strconvParseFloat(s)
    IN  [val |-> r.val, err |-> r.err, handed |-> s]

\* helpers.go parseInt
parseInt(strIn) ==
    LET r == strconvParseInt(strIn)
    IN  [val |-> r.val, err |-> r.err, handed |-> strIn]

----------------------------------------------------------------------------
(* gravity-model table                                                     *)

\* A GravConst field holds the text of the expression that sets it; "0" is
\* the zero value of a field no case has set.
GravConst(mu, radiusearthkm, xke, tumin, j2, j3, j4, j3oj2, f) ==
    [mu |-> mu, radiusearthkm |-> radiusearthkm, xke |-> xke, tumin |-> tumin,
     j2 |-> j2, j3 |-> j3, j4 |-> j4, j3oj2 |-> j3oj2, f |-> f]

ZeroGravConst == GravConst("0", "0", "0", "0", "0", "0", "0", "0", "0")

XkeDerived == "60.0/sqrt(radiusearthkm^3/mu)"

Wgs72old ==
    GravConst("398600.79964", "6378.135", "0.0743669161", "1.0/xke", "0.001082616",
              "-0.00000253881", "-0.00000165597", "j3/j2", "1/298.26")

Wgs72 ==
    GravConst("398600.8", "6378.135", XkeDerived, "1.0/xke", "0.001082616",
              "-0.00000253881", "-0.00000165597", "j3/j2", "1/298.26")

Wgs84 ==
    GravConst("398600.5", "6378.137", XkeDerived, "1.0/xke", "0.00108262998905",
              "-0.00000253215306", "-0.00000161098761", "j3/j2", "1/298.257223563")

\* a table whose default case falls back to wgs72 and reports the error
getGravConstDefaultsToWgs72(name) ==
    CASE name = "wgs72old" -> [grav |-> Wgs72old, err |-> NoError]
      [] name = "wgs72" -> [grav |-> Wgs72, err |-> NoError]
      [] name = "wgs84" -> [grav |-> Wgs84, err |-> NoError]
      [] OTHER -> [grav |-> Wgs72,
                   err |-> Errorf("is not a valid gravity model", name, 0)]

getGravConst(name) ==
    CASE name = "wgs72old" -> [grav |-> Wgs72old, err |-> NoError]
      [] name = "wgs72" -> [grav |-> Wgs72, err |-> NoError]
      [] name = "wgs84" -> [grav |-> Wgs84, err |-> NoError]
      [] OTHER -> [grav |-> ZeroGravConst,
                   err |-> Errorf("is not a valid gravity model", name, 0)]

----------------------------------------------------------------------------
(* ParseTLE                                                                *)

LineLen == 69

\* the Julian date of a satellite that has none yet
ZeroJDay == [Day |-> 0, Fraction |-> [num |-> 0, den |-> 1]]

\* the zero value of Satellite (the named result sat of ParseTLE)
ZeroSat ==
    [Line1 |-> <<>>, Line2 |-> <<>>, Error |-> 0, Whichconst |-> ZeroGravConst,
     satnum |-> 0, epochyr |-> 0, epochdays |-> Zero, ndot |-> Zero,
     nddot |-> Zero, bstar |-> Zero, inclo |-> Zero, nodeo |-> Zero,
     ecco |-> Zero, argpo |-> Zero, mo |-> Zero, no |-> Zero,
     jdsatepoch |-> ZeroJDay]

\* the fields of sat in the order ParseTLE assigns them
FieldOrder ==
    <<"satnum", "epochyr", "epochdays", "ndot", "nddot", "bstar",
      "inclo", "nodeo", "ecco", "argpo", "mo", "no">>

IntFields == {"satnum", "epochyr"}

\* how many spaces strings.Replace(.., " ", "", n) removes
StripCount == 2

\* strings.Replace(s, " ", "", 2)
Strip(s) == Replace(s, <<>>, StripCount)

\* the fields ParseTLE passes through strings.Replace(.., " ", "", 2)
StrippedFields == {"ndot", "nddot", "bstar", "inclo", "nodeo", "argpo", "mo", "no"}

\* the columns of a field, with the point and the e that ParseTLE puts in
RawText(f, line1, line2) ==
    CASE f = "satnum" -> Slice(line1, 2, 7)
      [] f = "epochyr" -> Slice(line1, 18, 20)
      [] f = "epochdays" -> Slice(line1, 20, 32)
      [] f = "ndot" -> Slice(line1, 33, 43)
      [] f = "nddot" -> Slice(line1, 44, 45) \o <<".">> \o Slice(line1, 45, 50)
                          \o <<"e">> \o Slice(line1, 50, 52)
      [] f = "bstar" -> Slice(line1, 53, 54) \o <<".">> \o Slice(line1, 54, 59)
                          \o <<"e">> \o Slice(line1, 59, 61)
      [] f = "inclo" -> Slice(line2, 8, 16)
      [] f = "nodeo" -> Slice(line2, 17, 25)
      [] f = "ecco" -> <<".">> \o Slice(line2, 26, 33)
      [] f = "argpo" -> Slice(line2, 34, 42)
      [] f = "mo" -> Slice(line2, 43, 51)
      [] f = "no" -> Slice(line2, 52, 63)

\* the text ParseTLE hands to parseInt / parseFloat for a field
FieldText(f, line1, line2) ==
    IF f = "satnum" THEN TrimSpace(RawText(f, line1, line2))
    ELSE IF f \in StrippedFields THEN Strip(RawText(f, line1, line2))
    ELSE RawText(f, line1, line2)

\* the message ParseTLE wraps a field's parse error in
FieldError(f) ==
    CASE f = "satnum" -> "Error on parsing line1[2:7]"
      [] f = "epochyr" -> "Error on parsing line1[18:20]"
      [] f = "epochdays" -> "Error on parsing line1[20:32]"
      [] f = "ndot" -> "Error on parsing line1[33:43]"
      [] f = "nddot" -> "Error on parsing line1[44:52]"
      [] f = "bstar" -> "Error on parsing line1[53:61]"
      [] f = "inclo" -> "Error on parsing line2[8:16]"
      [] f = "nodeo" -> "Error on parsing line2[17:25]"
      [] f = "ecco" -> "Error on parsing line2[26:33]"
      [] f = "argpo" -> "Error on parsing line2[34:42]"
      [] f = "mo" -> "Error on parsing line2[43:51]"
      [] f = "no" -> "Error on parsing line2[52:63]"

FieldParse(f, text) == IF f \in IntFields THEN parseInt(text) ELSE parseFloat(text)

\* after a failed parse: `err = fmt.Errorf(..); return`
StopsNever(err) == FALSE

StopsAt(err) == err # "nil"

\* The field assignments of ParseTLE from the k-th on.  Each one stores the
\* parser's value in sat, also when the parse failed, and returns on an error.
\* trace lists the parser calls made: the field and the text strconv received.
RECURSIVE ParseFields(_, _, _, _, _)
ParseFields(sat, trace, k, line1, line2) ==
    IF k > Len(FieldOrder) THEN [sat |-> sat, err |-> NoError, trace |-> trace]
    ELSE LET f == FieldOrder[k]
             r == FieldParse(f, FieldText(f, line1, line2))
             sat2 == [sat EXCEPT ![f] = r.val]
             trace2 == Append(trace, [field |-> f, handed |-> r.handed])
         IN  IF StopsAt(r.err)
             THEN [sat |-> sat2, err |-> Errorf(FieldError(f), r.err, 0),
                   trace |-> trace2]
             ELSE ParseFields(sat2, trace2, k + 1, line1, line2)

LengthTooShort(line) == Len(line) < LineLen

LengthMismatch(line) == Len(line) # LineLen

ParseTLE(line1, line2, gravconst) ==
    IF LengthMismatch(line1)
    THEN [sat |-> ZeroSat, trace |-> <<>>,
          err |-> Errorf("Line1 length should be 69 but was", "nil", Len(line1))]
    ELSE IF LengthMismatch(line2)
    THEN [sat |-> ZeroSat, trace |-> <<>>,
          err |-> Errorf("Line2 length should be 69 but was", "nil", Len(line2))]
    ELSE LET g == getGravConst(gravconst)
             sat == [ZeroSat EXCEPT !.Line1 = line1, !.Line2 = line2, !.Error = 0,
                                    !.Whichconst = g.grav]
         IN  IF g.err # NoError
             THEN [sat |-> sat, trace |-> <<>>,
                   err |-> Errorf("Error on getting gravconst", g.err.msg, 0)]
             ELSE ParseFields(sat, <<>>, 1, line1, line2)

----------------------------------------------------------------------------
(* time system                                                             *)

RECURSIVE Pow10(_)
Pow10(k) == IF k = 0 THEN 1 ELSE 10 * Pow10(k - 1)

\* the decimal f as the fraction num/den, den a power of ten
Rational(f) ==
    LET l == Len(f.digs)
        m == DigitsValue(f.digs, 0)
        num == IF f.exp >= l THEN m * Pow10(f.exp - l) ELSE m
        den == IF f.exp >= l THEN 1 ELSE Pow10(l - f.exp)
    IN  [num |-> IF f.neg THEN -num ELSE num, den |-> den]

Lmonth == <<31, 28, 31, 30, 31, 30, 31, 31, 30, 31, 30, 31>>

LmonthLeap == <<31, 29, 31, 30, 31, 30, 31, 31, 30, 31, 30, 31>>

\* Go's %: the remainder has the sign of the dividend
GoRem(a, b) == IF a >= 0 THEN a % b ELSE -((-a) % b)

IsLeap(year) == GoRem(year, 4) = 0

LoopCap == 22

\* one more month is skipped: dayofyr > inttemp + lmonth[i-1] && i < 22
LoopGoesOnAtOrPast(dayofyr, inttemp, len, i) == dayofyr >= inttemp + len /\ i < LoopCap

LoopGoesOn(dayofyr, inttemp, len, i) == dayofyr > inttemp + len /\ i < LoopCap

\* The loop of days2mdhms.  lmonth[int(i-1)] is read before i < 22 is tested,
\* and an index outside the table's 0..11 is a run-time panic.  reads is the
\* set of the indices read.
RECURSIVE MonthLoop(_, _, _, _, _)
MonthLoop(lmonth, dayofyr, i, inttemp, reads) ==
    LET idx == i - 1
    IN  IF idx \notin 0..(Len(lmonth) - 1)
        THEN [i |-> i, inttemp |-> inttemp, panic |-> TRUE, reads |-> reads \cup {idx}]
        ELSE IF LoopGoesOn(dayofyr, inttemp, lmonth[idx + 1], i)
        THEN MonthLoop(lmonth, dayofyr, i + 1, inttemp + lmonth[idx + 1],
                       reads \cup {idx})
        ELSE [i |-> i, inttemp |-> inttemp, panic |-> FALSE,
              reads |-> reads \cup {idx}]

\* the split of the day fraction rem/den into hours, minutes and seconds:
\* temp = frac*24, hr = floor(temp), temp = (temp-hr)*60, min = floor(temp),
\* sec = (temp-min)*60
SplitDay(rem, den) ==
    LET hr == (rem * 24) \div den
        min == (((rem * 24) % den) * 60) \div den
    IN  [hr |-> hr, min |-> min,
         sec |-> [num |-> ((((rem * 24) % den) * 60) % den) * 60, den |-> den]]

\* days2mdhms(year, epochDays), epochDays the fraction num/den.  sec is the
\* fraction sec.num/sec.den; the other results are whole numbers.
days2mdhms(year, epochDays) ==
    LET dayofyr == epochDays.num \div epochDays.den
        loop == MonthLoop(IF IsLeap(year) THEN LmonthLeap ELSE Lmonth, dayofyr, 1, 0, {})
        hms == SplitDay(epochDays.num % epochDays.den, epochDays.den)
    IN  [panic |-> loop.panic, reads |-> loop.reads,
         mon |-> loop.i, day |-> dayofyr - loop.inttemp, hr |-> hms.hr,
         min |-> hms.min, sec |-> hms.sec]

\* the whole part of 367*year - floor(7*(year + floor((mon+9)/12))*0.25)
\*   + floor(275*mon/9) + day + 1721013.5 with the month term 275 made 276
JulianDayNumberOffByMonth(year, mon, day) ==
    367 * year - ((7 * (year + ((mon + 9) \div 12))) \div 4)
        + ((276 * mon) \div 9) + day + 1721013

\* the whole part of jd in NewJDay; jd itself is this number and a half
JulianDayNumber(year, mon, day) ==
    367 * year - ((7 * (year + ((mon + 9) \div 12))) \div 4)
        + ((275 * mon) \div 9) + day + 1721013

SecondsPerDay == 86400

\* NewJDay: Day is in half days (twice jd, which ends in .5), Fraction is the
\* fraction num/den of a day
NewJDay(year, mon, day, hr, minute, sec) ==
    [Day |-> 2 * JulianDayNumber(year, mon, day) + 1,
     Fraction |-> [num |-> sec.num + (minute * 60 + hr * 3600) * sec.den,
                   den |-> SecondsPerDay * sec.den]]

----------------------------------------------------------------------------
(* NewSatFromTLE                                                           *)

Pivot == 57

ResolveYearPivotInclusive(epochyr) ==
    IF epochyr <= Pivot THEN epochyr + 2000 ELSE epochyr + 1900

\* helpers.go 153-158
ResolveYear(epochyr) ==
    IF epochyr < Pivot THEN epochyr + 2000 ELSE epochyr + 1900

\* v / XPDOTP, v * DEG2RAD, ...: the factor is kept beside the parsed value
Scaled(v, factor) == [v EXCEPT !.scale = factor]

\* The unit conversions of lines 144-151.
ConvertUnits(sat) ==
    [sat EXCEPT !.no = Scaled(@, "/XPDOTP"),
                !.ndot = Scaled(@, "/(XPDOTP*1440.0)"),
                !.nddot = Scaled(@, "/(XPDOTP*1440.0*1440)"),
                !.inclo = Scaled(@, "*DEG2RAD"),
                !.nodeo = Scaled(@, "*DEG2RAD"),
                !.argpo = Scaled(@, "*DEG2RAD"),
                !.mo = Scaled(@, "*DEG2RAD")]

\* NewSatFromTLE up to its call of sgp4init, the propagator's initializer.
\* calls lists the arguments of the calls made to days2mdhms and NewJDay.
NewSatFromTLE(line1, line2, gravconst) ==
    LET p == ParseTLE(line1, line2, gravconst)
        sat == ConvertUnits(p.sat)
        year == ResolveYear(sat.epochyr)
        t == days2mdhms(year, Rational(sat.epochdays))
        jd == NewJDay(year, t.mon, t.day, t.hr, t.min, t.sec)
    IN  IF p.err # NoError
        THEN [sat |-> p.sat, err |-> p.err, panic |-> FALSE, calls |-> <<>>,
              reads |-> {}]
        ELSE IF t.panic
        THEN [sat |-> sat, err |-> NoError, panic |-> TRUE, reads |-> t.reads,
              calls |-> <<[fn |-> "days2mdhms", year |-> year]>>]
        ELSE [sat |-> [sat EXCEPT !.jdsatepoch = jd], err |-> NoError,
              panic |-> FALSE, reads |-> t.reads,
              calls |-> <<[fn |-> "days2mdhms", year |-> year],
                          [fn |-> "NewJDay", year |-> year, mon |-> t.mon,
                           day |-> t.day, hr |-> t.hr, minute |-> t.min,
                           sec |-> t.sec]>>]

----------------------------------------------------------------------------
(* LatLongDeg                                                              *)

\* math.Pi in angle units
Pi == 12

HalfTurnDeg == 180

FullTurnDeg == 360

\* rad / math.Pi * 180
RadToDeg(rad) == (rad * HalfTurnDeg) \div Pi

\* math.Mod(x, y) for y > 0: the result has the sign of x
Mod(x, y) == GoRem(x, y)

\* lines 309-314
WrapLongitude(rad) ==
    LET m == Mod(RadToDeg(rad), FullTurnDeg)
    IN  IF m > HalfTurnDeg THEN FullTurnDeg - m
        ELSE IF m < -HalfTurnDeg THEN FullTurnDeg + m
        ELSE m

LatitudeAtOrOutOfBounds(lat) == 2 * lat <= -Pi \/ 2 * lat >= Pi

\* rad.Latitude < (-math.Pi/2) || rad.Latitude > math.Pi/2
LatitudeOutOfBounds(lat) == 2 * lat < -Pi \/ 2 * lat > Pi

LatLongDeg(rad) ==
    LET lon == WrapLongitude(rad.Longitude)
    IN  IF LatitudeOutOfBounds(rad.Latitude)
        THEN [deg |-> [Latitude |-> 0, Longitude |-> lon],
              err |-> Errorf("Latitude not within bounds -pi/2 to +pi/2", "nil", 0)]
        ELSE [deg |-> [Latitude |-> RadToDeg(rad.Latitude), Longitude |-> lon],
              err |-> NoError]

----------------------------------------------------------------------------
(* inputs                                                                  *)

DigitChar(n) ==
    CASE n = 0 -> "0" [] n = 1 -> "1" [] n = 2 -> "2" [] n = 3 -> "3"
      [] n = 4 -> "4" [] n = 5 -> "5" [] n = 6 -> "6" [] n = 7 -> "7"
      [] n = 8 -> "8" [] n = 9 -> "9"

\* The columns of the element set of the ISS for 2008, day 264:
\* 1 25544U 98067A   08264.51782528 -.00002182  00000-0 -11606-4 0  2927
\* 2 25544  51.6416 247.4627 0006703 130.5360 325.0288 15.72125391563537
\* with the day fraction shortened to .5178
BaseColumns ==
    [satnum |-> <<"2", "5", "5", "4", "4">>,
     epochyr |-> <<"0", "8">>,
     epochdays |-> <<"2", "6", "4", ".", "5", "1", "7", "8", "0", "0", "0", "0">>,
     ndot |-> <<"-", ".", "0", "0", "0", "0", "2", "1", "8", "2">>,
     nddot |-> <<" ", "0", "0", "0", "0", "0", "-", "0">>,
     bstar |-> <<"-", "1", "1", "6", "0", "6", "-", "4">>,
     inclo |-> <<" ", "5", "1", ".", "6", "4", "1", "6">>,
     nodeo |-> <<"2", "4", "7", ".", "4", "6", "2", "7">>,
     ecco |-> <<"0", "0", "0", "6", "7", "0", "3">>,
     argpo |-> <<"1", "3", "0", ".", "5", "3", "6", "0">>,
     mo |-> <<"3", "2", "5", ".", "0", "2", "8", "8">>,
     no |-> <<"1", "5", ".", "7", "2", "1", "2", "5", "3", "9", "1">>]

Line1Of(c) ==
    <<"1", " ">> \o c.satnum \o <<"U", " ", "9", "8", "0", "6", "7", "A", " ", " ", " ">>
      \o c.epochyr \o c.epochdays \o <<" ">> \o c.ndot \o <<" ">> \o c.nddot
      \o <<" ">> \o c.bstar \o <<" ", "0", " ", " ", "2", "9", "2", "7">>

Line2Of(c) ==
    <<"2", " ">> \o c.satnum \o <<" ">> \o c.inclo \o <<" ">> \o c.nodeo \o <<" ">>
      \o c.ecco \o <<" ">> \o c.argpo \o <<" ">> \o c.mo \o <<" ">> \o c.no
      \o <<"5", "6", "3", "5", "3", "7">>

TLE(c, gravconst) ==
    [line1 |-> Line1Of(c), line2 |-> Line2Of(c), gravconst |-> gravconst]

FieldNames == {FieldOrder[k] : k \in 1..Len(FieldOrder)}

\* the characters of s at the positions in P replaced by ch
Overlay(s, P, ch) == [i \in 1..Len(s) |-> IF i \in P THEN ch ELSE s[i]]

\* most spaces put into one field
MaxSpaces == 3

\* one field of the base element set with up to MaxSpaces of its columns blank
SpaceInputs ==
    {TLE([BaseColumns EXCEPT ![f] = Overlay(@, P, " ")], "wgs84") :
        <<f, P>> \in UNION {{<<g, Q>> : Q \in {R \in SUBSET (1..Len(BaseColumns[g])) :
                                               Cardinality(R) \in 1..MaxSpaces}} :
                            g \in FieldNames}}

CheckNames == {"line1", "line2", "gravconst"} \cup FieldNames

\* most checks of ParseTLE that one input fails
MaxBad == 2

BadDays == <<"1", "e", "9", "9", "9", "9", "9", "9", "9", "9", "9", "9">>

\* the base element set made to fail the checks in bad: a line one character
\* short or long, an unknown gravity model, a field that starts with a letter
\* (or, for the epoch day, is out of the range of a float64)
BadInput(bad, long, range) ==
    LET c == [f \in FieldNames |->
                 IF f \notin bad THEN BaseColumns[f]
                 ELSE IF f = "epochdays" /\ range THEN BadDays
                 ELSE Overlay(BaseColumns[f], {1}, "X")]
        resize(l) == IF long THEN l \o <<" ">> ELSE SubSeq(l, 1, Len(l) - 1)
    IN  [line1 |-> IF "line1" \in bad THEN resize(Line1Of(c)) ELSE Line1Of(c),
         line2 |-> IF "line2" \in bad THEN resize(Line2Of(c)) ELSE Line2Of(c),
         gravconst |-> IF "gravconst" \in bad THEN "wgs83" ELSE "wgs84"]

BadInputs ==
    {BadInput(bad, long, range) :
        bad \in {B \in SUBSET CheckNames : Cardinality(B) <= MaxBad},
        long \in BOOLEAN, range \in BOOLEAN}

GravNames == {"wgs72old", "wgs72", "wgs84", "wgs83", "WGS84", "wgs72 ", ""}

GravInputs == {TLE(BaseColumns, g) : g \in GravNames}

TwoDigits(n) == <<DigitChar(n \div 10), DigitChar(n % 10)>>

ThreeDigits(n) == <<DigitChar(n \div 100)>> \o TwoDigits(n % 100)

\* largest day of the year in an epoch field
MaxDayOfYear == 370

\* day fractions of four decimals
DayFractions ==
    {<<"0", "0", "0", "0">>, <<"5", "0", "0", "0">>, <<"9", "9", "9", "9">>}

EpochColumns(yy, d, fr) ==
    [BaseColumns EXCEPT !.epochyr = TwoDigits(yy),
                        !.epochdays = ThreeDigits(d) \o <<".">> \o fr
                                        \o <<"0", "0", "0", "0">>]

\* every two-digit year with every day of the year, at the start of the day
EpochInputs ==
    {TLE(EpochColumns(yy, d, <<"0", "0", "0", "0">>), "wgs72") :
        yy \in 0..99, d \in 0..MaxDayOfYear}

FractionInputs ==
    {TLE(EpochColumns(yy, d, fr), "wgs72") :
        yy \in {0, 56, 57, 99}, d \in {1, 59, 60, 365}, fr \in DayFractions}

ParseTLEInputs == SpaceInputs \cup BadInputs \cup GravInputs

NewSatFromTLEInputs == EpochInputs \cup FractionInputs \cup BadInputs \cup GravInputs

DirectYears == {-4, -1, 1900, 1957, 2000, 2001, 2056, 2100}

\* seconds into the day
DaySeconds == {0, 1, 3599, 3600, 43200, 86399}

days2mdhmsInputs ==
    {[year |-> y, epochDays |-> [num |-> d * SecondsPerDay + s, den |-> SecondsPerDay]] :
        y \in DirectYears, d \in 0..MaxDayOfYear, s \in DaySeconds}

\* seconds in quarters
Seconds == {[num |-> 0, den |-> 4], [num |-> 1, den |-> 4], [num |-> 239, den |-> 4]}

NewJDayInputs ==
    {[year |-> d[1], mon |-> d[2], day |-> d[3], hr |-> h, minute |-> m, sec |-> s] :
        d \in {<<2000, 1, 1>>, <<1957, 12, 31>>}, h \in 0..23, m \in 0..59,
        s \in Seconds}

\* largest latitude and longitude, in angle units
MaxLatitude == 13

MaxLongitude == 50

LatLongDegInputs ==
    {[Latitude |-> lat, Longitude |-> lon] :
        lat \in (-MaxLatitude)..MaxLatitude, lon \in (-MaxLongitude)..MaxLongitude}

----------------------------------------------------------------------------
(* the calls                                                               *)

NoOutput == [none |-> TRUE]

Init ==
    /\ pc = "call"
    /\ out = NoOutput
    /\ \/ op = "ParseTLE" /\ in \in ParseTLEInputs
       \/ op = "NewSatFromTLE" /\ in \in NewSatFromTLEInputs
       \/ op = "getGravConst" /\ in \in GravNames
       \/ op = "days2mdhms" /\ in \in days2mdhmsInputs
       \/ op = "NewJDay" /\ in \in NewJDayInputs
       \/ op = "LatLongDeg" /\ in \in LatLongDegInputs

CallParseTLE ==
    /\ pc = "call" /\ op = "ParseTLE"
    /\ out' = ParseTLE(in.line1, in.line2, in.gravconst)
    /\ pc' = "return"
    /\ UNCHANGED <<op, in>>

CallNewSatFromTLE ==
    /\ pc = "call" /\ op = "NewSatFromTLE"
    /\ out' = NewSatFromTLE(in.line1, in.line2, in.gravconst)
    /\ pc' = IF out'.panic THEN "panic" ELSE "return"
    /\ UNCHANGED <<op, in>>

CallGetGravConst ==
    /\ pc = "call" /\ op = "getGravConst"
    /\ out' = getGravConst(in)
    /\ pc' = "return"
    /\ UNCHANGED <<op, in>>

CallDays2mdhms ==
    /\ pc = "call" /\ op = "days2mdhms"
    /\ out' = days2mdhms(in.year, in.epochDays)
    /\ pc' = IF out'.panic THEN "panic" ELSE "return"
    /\ UNCHANGED <<op, in>>

CallNewJDay ==
    /\ pc = "call" /\ op = "NewJDay"
    /\ out' = NewJDay(in.year, in.mon, in.day, in.hr, in.minute, in.sec)
    /\ pc' = "return"
    /\ UNCHANGED <<op, in>>

CallLatLongDeg ==
    /\ pc = "call" /\ op = "LatLongDeg"
    /\ out' = LatLongDeg(in)
    /\ pc' = "return"
    /\ UNCHANGED <<op, in>>

Next ==
    \/ CallParseTLE
    \/ CallNewSatFromTLE
    \/ CallGetGravConst
    \/ CallDays2mdhms
    \/ CallNewJDay
    \/ CallLatLongDeg

Spec == Init /\ [][Next]_vars

----------------------------------------------------------------------------
(* the claims                                                              *)

Returned(o) == pc = "return" /\ op = o

Ended(o) == pc \in {"return", "panic"} /\ op = o

KnownModels == {"wgs72old", "wgs72", "wgs84"}

\* C1: ParseTLE returns a non-nil error whenever line1 or line2 is not exactly
\* 69 characters long, whatever the other inputs are.
C1_WrongLengthIsRejected ==
    (Returned("ParseTLE") /\ (Len(in.line1) # 69 \/ Len(in.line2) # 69))
        => out.err # NoError

\* C1 witness: line2 has 70 characters, line1 is well formed and the gravity
\* model is valid, and ParseTLE has returned the length error of line2.
C1_Witness ==
    /\ Returned("ParseTLE")
    /\ in.line1 = Line1Of(BaseColumns) /\ Len(in.line2) = 70
    /\ in.gravconst = "wgs84"
    /\ out.err = Errorf("Line2 length should be 69 but was", "nil", 70)

\* C2: getGravConst succeeds exactly for "wgs72old", "wgs72" and "wgs84"; for
\* any other name it returns an error and a GravConst with no field set, and
\* ParseTLE (given lines of 69 characters) returns that error, wrapped.
C2_UnknownModelIsRejected ==
    /\ Returned("getGravConst") =>
          /\ (out.err = NoError) <=> (in \in KnownModels)
          /\ in \in KnownModels => \A f \in DOMAIN out.grav : out.grav[f] # "0"
          /\ in \notin KnownModels =>
                /\ \A f \in DOMAIN out.grav : out.grav[f] = "0"
                /\ out.err.cause = in
    /\ (Returned("ParseTLE") /\ Len(in.line1) = 69 /\ Len(in.line2) = 69
          /\ in.gravconst \notin KnownModels) =>
          /\ out.err = Errorf("Error on getting gravconst",
                              "is not a valid gravity model", 0)
          /\ \A f \in DOMAIN out.sat.Whichconst : out.sat.Whichconst[f] = "0"

\* C2 witness: getGravConst has rejected the name "wgs83".
C2_Witness ==
    /\ Returned("getGravConst") /\ in = "wgs83"
    /\ out.err # NoError /\ out.grav.mu = "0"

\* the order of the checks that C3 gives, and the error of each
ClaimedOrder ==
    <<"line1", "line2", "gravconst", "satnum", "epochyr", "epochdays", "ndot",
      "nddot", "bstar", "inclo", "nodeo", "ecco", "argpo", "mo", "no">>

ClaimedError ==
    <<"Line1 length should be 69 but was", "Line2 length should be 69 but was",
      "Error on getting gravconst", "Error on parsing line1[2:7]",
      "Error on parsing line1[18:20]", "Error on parsing line1[20:32]",
      "Error on parsing line1[33:43]", "Error on parsing line1[44:52]",
      "Error on parsing line1[53:61]", "Error on parsing line2[8:16]",
      "Error on parsing line2[17:25]", "Error on parsing line2[26:33]",
      "Error on parsing line2[34:42]", "Error on parsing line2[43:51]",
      "Error on parsing line2[52:63]">>

\* whether the k-th check of ClaimedOrder, taken alone, fails on the input i
CheckFails(k, i) ==
    IF k = 1 THEN Len(i.line1) # 69
    ELSE IF k = 2 THEN Len(i.line2) # 69
    ELSE IF k = 3 THEN i.gravconst \notin KnownModels
    ELSE FieldParse(ClaimedOrder[k],
                    FieldText(ClaimedOrder[k], i.line1, i.line2)).err # "nil"

\* the first check that fails on i, 0 when none does (a field is looked at
\* only when both lines have 69 characters)
RECURSIVE FirstFailing(_, _)
FirstFailing(k, i) ==
    IF k > Len(ClaimedOrder) THEN 0
    ELSE IF CheckFails(k, i) THEN k
    ELSE FirstFailing(k + 1, i)

ZeroOfField(f) == IF f \in {"satnum", "epochyr"} THEN 0 ELSE Zero

\* C3: ParseTLE checks in the order of ClaimedOrder and stops at the first
\* check that fails: it returns that check's error, the parsers were called
\* for the fields up to that check and for no later one, and every later
\* field of the record is at its zero value.
C3_StopsAtFirstFailure ==
    Returned("ParseTLE") =>
        LET k == FirstFailing(1, in)
        IN  /\ (k = 0) <=> (out.err = NoError)
            /\ k = 0 => [j \in 1..Len(out.trace) |-> out.trace[j].field]
                          = SubSeq(ClaimedOrder, 4, 15)
            /\ k > 0 =>
                  /\ out.err.msg = ClaimedError[k]
                  /\ [j \in 1..Len(out.trace) |-> out.trace[j].field]
                        = SubSeq(ClaimedOrder, 4, k)
                  /\ \A j \in (k + 1)..15 :
                        j > 3 => out.sat[ClaimedOrder[j]] = ZeroOfField(ClaimedOrder[j])

\* C3 witness: ndot and the inclination are both malformed; ParseTLE has
\* returned the error of ndot, the earlier one, and left the inclination at 0.
C3_Witness ==
    /\ Returned("ParseTLE")
    /\ in = BadInput({"ndot", "inclo"}, FALSE, FALSE)
    /\ out.err.msg = "Error on parsing line1[33:43]"
    /\ out.sat.inclo = Zero /\ out.sat.satnum = 25544
    /\ Len(out.trace) = 4

\* C4: the longitude LatLongDeg returns (with an accepted latitude) lies in
\* (-180, 180] and differs from the input in degrees by a whole multiple of 360.
C4_LongitudeIsWrapped ==
    (Returned("LatLongDeg") /\ out.err = NoError) =>
        /\ out.deg.Longitude > -180 /\ out.deg.Longitude <= 180
        /\ (out.deg.Longitude - RadToDeg(in.Longitude)) % 360 = 0

\* C5: LatLongDeg returns an error exactly when the latitude is below -pi/2
\* or above pi/2; an accepted latitude is returned as latitude*180/pi, and
\* with the error no converted latitude is returned.
C5_LatitudeBounds ==
    Returned("LatLongDeg") =>
        LET latDeg == (in.Latitude * 180) \div Pi
        IN  /\ (out.err # NoError) <=> (latDeg < -90 \/ latDeg > 90)
            /\ out.err = NoError => out.deg.Latitude = latDeg
            /\ out.err # NoError => out.deg.Latitude = 0

\* C5 witness: the latitude pi/2 itself has been accepted and returned as 90.
C5_Witness ==
    /\ Returned("LatLongDeg") /\ 2 * in.Latitude = Pi
    /\ out.err = NoError /\ out.deg.Latitude = 90

\* C6: NewSatFromTLE resolves an epoch year yy in 0..99 to 2000+yy when
\* yy < 57 and to 1900+yy otherwise (56 gives 2056, 57 gives 1957), the result
\* lies in 1957..2056, and it is the year passed to days2mdhms and to NewJDay.
C6_PivotRule ==
    (Ended("NewSatFromTLE") /\ out.err = NoError /\ out.sat.epochyr \in 0..99) =>
        LET yy == out.sat.epochyr
            year == IF yy < 57 THEN 2000 + yy ELSE 1900 + yy
        IN  /\ out.calls # <<>>
            /\ \A j \in 1..Len(out.calls) : out.calls[j].year = year
            /\ \A j \in 1..Len(out.calls) : out.calls[j].year \in 1957..2056
            /\ yy = 56 => out.calls[1].year = 2056
            /\ yy = 57 => out.calls[1].year = 1957

\* C6 witness: the epoch year 57 has gone to days2mdhms and NewJDay as 1957.
C6_Witness ==
    /\ Returned("NewSatFromTLE") /\ Slice(in.line1, 18, 20) = <<"5", "7">>
    /\ out.err = NoError /\ Len(out.calls) = 2
    /\ out.calls[1].year = 1957 /\ out.calls[2].year = 1957

\* C7: a space-stripped field reaches strconv with every space removed: the
\* text handed over is the field's columns without their spaces, so no space
\* has become a 0.
C7_SpacesAreStripped ==
    Returned("ParseTLE") =>
        \A j \in 1..Len(out.trace) :
            out.trace[j].field \in StrippedFields =>
                out.trace[j].handed
                    = Replace(RawText(out.trace[j].field, in.line1, in.line2), <<>>, -1)

\* the length of month m of year y, and the days of y before month m
MonthLength(y, m) ==
    IF m \in {4, 6, 9, 11} THEN 30
    ELSE IF m = 2 THEN (IF y % 4 = 0 THEN 29 ELSE 28)
    ELSE 31

RECURSIVE DaysBefore(_, _)
DaysBefore(y, m) == IF m <= 1 THEN 0 ELSE DaysBefore(y, m - 1) + MonthLength(y, m - 1)

YearLength(y) == IF y % 4 = 0 THEN 366 ELSE 365

\* C8: for a day of the year d in 1..365 (1..366 when y%4 = 0) days2mdhms
\* returns a month m in 1..12 and a day k in 1..length of m with
\* (days before m) + k = d.
C8_DayOfYearToMonthDay ==
    (Ended("days2mdhms")
       /\ (in.epochDays.num \div in.epochDays.den) \in 1..YearLength(in.year)) =>
        /\ ~out.panic
        /\ out.mon \in 1..12
        /\ out.day \in 1..MonthLength(in.year, out.mon)
        /\ DaysBefore(in.year, out.mon) + out.day
              = in.epochDays.num \div in.epochDays.den

\* C8 witness: day 59 of 2001, the last day of February, has been returned as
\* month 2, day 28.
C8_Witness ==
    /\ Returned("days2mdhms") /\ in.year = 2001
    /\ in.epochDays = [num |-> 59 * 86400, den |-> 86400]
    /\ out.mon = 2 /\ out.day = 28

\* C9: for every day-of-year value of the epoch field the loop of days2mdhms
\* ends without a panic, reads the month table only at 0..11 and returns a
\* month in 1..12.
C9_LoopIsSafe ==
    /\ Ended("days2mdhms") =>
          ~out.panic /\ out.reads \subseteq 0..11 /\ out.mon \in 1..12
    /\ (Ended("NewSatFromTLE") /\ out.err = NoError) =>
          ~out.panic /\ out.reads \subseteq 0..11

=============================================================================
